---- MODULE Spec2Model ----
(***************************************************************************)
(* Protocol layer of the Winix C545 bridge (components/winix_c545):        *)
(* line framer, sentence router, application message decoder, handshake    *)
(* state machine and publish step, modelled at byte level.                 *)
(*                                                                         *)
(* A byte is a one-character string; NUL, and a representative byte with   *)
(* the top bit set, are the tokens NUL and HI.  A C array is a sequence,   *)
(* C index i being element i + 1.                                          *)
(***************************************************************************)
EXTENDS Integers, Sequences, FiniteSets, TLC

VARIABLES
  buffer,                 \* loop(): static char buffer[MAX_LINE_LENGTH]
  position,               \* readline_(): static int position
  char_signed,            \* build property: is plain char a signed type
  rx,                     \* bytes the UART holds that were not read yet
  wire,                   \* bytes the appliance sent that did not reach the UART yet
  handshake_state_,       \* HandshakeState
  last_handshake_event_,  \* millis() of the last handshake event
  now,                    \* millis()
  states_,                \* pending buffer (WinixStateMap)
  obs,                    \* attached observers and their last-known values
  uart_tx,                \* sentences written to the UART by the last operation
  fed,                    \* history: bytes given to readline_ for the current line
  nlines,                 \* history: number of sentences framed so far
  hist,                   \* history: times and counts the claims refer to
  ev                      \* history: what the last operation did

vars == <<buffer, position, char_signed, rx, wire, handshake_state_,
          last_handshake_event_, now, states_, obs, uart_tx, fed, nlines, hist, ev>>

----------------------------------------------------------------------------
(* Bytes *)

NUL == ""
HI == "0xFF"
CR == "\r"
LF == "\n"

MAX_LINE_LENGTH == 255

Digits == <<"0","1","2","3","4","5","6","7","8","9">>

IsDigit(c) == \E i \in 1..10 : Digits[i] = c

DigitVal(c) == (CHOOSE i \in 1..10 : Digits[i] = c) - 1

\* isspace(): the white-space bytes that can occur in a framed sentence
IsSpace(c) == c \in {" ", "\t", LF}

\* a char compares below zero when char is signed and the top bit is set
IsNegative(c) == char_signed /\ c = HI

----------------------------------------------------------------------------
(* C strings inside an array *)

\* number of bytes from C index i up to the terminating NUL
RECURSIVE StrLen(_, _)
StrLen(buf, i) ==
  IF i >= Len(buf) \/ buf[i + 1] = NUL THEN 0
  ELSE IF i + 16 <= Len(buf) /\ \A k \in 1..16 : buf[i + k] # NUL
       THEN 16 + StrLen(buf, i + 16)  \* sixteen bytes at a time, same count
       ELSE 1 + StrLen(buf, i + 1)

\* the C string that starts at C index i
CStr(buf, i) == SubSeq(buf, i + 1, i + StrLen(buf, i))

\* strncmp(buf + i, lit, strlen(lit)) == 0
StartsWith(buf, i, lit) ==
  \A k \in 1..Len(lit) : i + k <= Len(buf) /\ buf[i + k] = lit[k]

----------------------------------------------------------------------------
(* Line framer *)

\* readline_ without the reset of position on CR
ReadlineNoReset(data, buf, pos, max_length) ==
  IF IsNegative(data) THEN [found |-> FALSE, buffer |-> buf, position |-> pos]
  ELSE IF data = LF THEN [found |-> FALSE, buffer |-> buf, position |-> pos]
  ELSE IF data = CR
    THEN [found |-> TRUE, buffer |-> [buf EXCEPT ![pos + 1] = NUL], position |-> pos]
  ELSE IF pos < max_length - 1
    THEN [found |-> FALSE, buffer |-> [buf EXCEPT ![pos + 1] = data], position |-> pos + 1]
  ELSE [found |-> FALSE, buffer |-> buf, position |-> pos]

\* readline_(data, buffer, max_length) with its static position
Readline(data, buf, pos, max_length) ==
  IF IsNegative(data) THEN [found |-> FALSE, buffer |-> buf, position |-> pos]
  ELSE IF data = LF THEN [found |-> FALSE, buffer |-> buf, position |-> pos]
  ELSE IF data = CR
    THEN [found |-> TRUE, buffer |-> [buf EXCEPT ![pos + 1] = NUL], position |-> 0]
  ELSE IF pos < max_length - 1
    THEN [found |-> FALSE, buffer |-> [buf EXCEPT ![pos + 1] = data], position |-> pos + 1]
  ELSE [found |-> FALSE, buffer |-> buf, position |-> pos]

----------------------------------------------------------------------------
(* Literals of the source *)

RX_PREFIX ==
  <<"A","T","*","I","C","T","*">>

TX_PREFIX ==
  <<"*","I","C","T","*">>

L_AWS_SEND ==
  <<"A","W","S","_","S","E","N","D">>

L_AWS_SEND_A ==
  <<"A","W","S","_","S","E","N","D","=","A">>

L_AWS_HEADER ==
  <<"A","W","S","_","S","E","N","D","=","A","2","X","X"," ","{">>

L_MCU_READY ==
  <<"M","C","U","_","R","E","A","D","Y">>

L_MIB32 ==
  <<"M","I","B","=","3","2">>

L_SETMIB ==
  <<"S","E","T","M","I","B">>

L_SMODE ==
  <<"S","M","O","D","E">>

S_AWS_SEND_OK ==
  <<"A","W","S","_","S","E","N","D",":","O","K">>

S_AWS_IND_SEND_OK ==
  <<"A","W","S","_","I","N","D",":","S","E","N","D"," ","O","K">>

S_AWS_IND_DISCONNECTED ==
  <<"A","W","S","_","I","N","D",":","D","I","S","C","O","N","N","E","C","T","E","D">>

S_AWS_IND_CONNECT_OK ==
  <<"A","W","S","_","I","N","D",":","C","O","N","N","E","C","T"," ","O","K">>

S_MCU_READY_OK ==
  <<"M","C","U","_","R","E","A","D","Y",":","O","K">>

S_MIB_OK ==
  <<"M","I","B",":","O","K"," ","7","5","9","5">>

S_SETMIB_OK ==
  <<"S","E","T","M","I","B",":","O","K">>

S_SMODE_OK ==
  <<"S","M","O","D","E",":","O","K">>

S_DEVICEREADY ==
  <<"D","E","V","I","C","E","R","E","A","D","Y">>

KEY_POWER ==
  <<"A","0","2">>

KEY_AUTO ==
  <<"A","0","3">>

KEY_SPEED ==
  <<"A","0","4">>

KEY_PLASMAWAVE ==
  <<"A","0","7">>

KEY_FILTER_AGE ==
  <<"A","2","1">>

KEY_AQI_INDICATOR ==
  <<"S","0","7">>

KEY_AQI ==
  <<"S","0","8">>

KEY_LIGHT ==
  <<"S","1","4">>

HandshakeStates == {"Reset", "DeviceReady", "McuReady", "MIB", "Connected"}

\* the frame write_sentence_ puts on the UART
Frame(sentence) == TX_PREFIX \o sentence \o <<CR, LF>>

----------------------------------------------------------------------------
(* sscanf and strtok on the line buffer *)

\* the byte at C index j, NUL past the end of the array
At(buf, j) == IF j >= 0 /\ j < Len(buf) THEN buf[j + 1] ELSE NUL

RECURSIVE SkipSpace(_, _)
SkipSpace(buf, j) == IF IsSpace(At(buf, j)) THEN SkipSpace(buf, j + 1) ELSE j

\* number of digits at j, at most w
RECURSIVE DigitRun(_, _, _)
DigitRun(buf, j, w) ==
  IF w > 0 /\ IsDigit(At(buf, j)) THEN 1 + DigitRun(buf, j + 1, w - 1) ELSE 0

\* value of the n digits at j, after the value acc of the digits before
RECURSIVE DigitsValue(_, _, _, _)
DigitsValue(buf, j, n, acc) ==
  IF n = 0 THEN acc ELSE DigitsValue(buf, j + 1, n - 1, 10 * acc + DigitVal(At(buf, j)))

\* the conversion %d with a field width: white space, a sign, digits
ScanInt(buf, j, width) ==
  LET k == SkipSpace(buf, j)
      sign == At(buf, k) \in {"+", "-"}
      d == IF sign THEN k + 1 ELSE k
      n == DigitRun(buf, d, IF sign THEN width - 1 ELSE width)
      v == DigitsValue(buf, d, n, 0)
  IN [ok |-> n > 0, value |-> IF At(buf, k) = "-" THEN 0 - v ELSE v, next |-> d + n]

\* number of bytes at j that are neither white space nor NUL, at most w
RECURSIVE WordRun(_, _, _)
WordRun(buf, j, w) ==
  IF w > 0 /\ At(buf, j) # NUL /\ ~IsSpace(At(buf, j))
  THEN 1 + WordRun(buf, j + 1, w - 1) ELSE 0

\* conversion to uint16_t
U16(v) == v % 65536

\* sscanf(sentence, "AWS_SEND=A%3d", &api_code) with sentence at C index i
ScanApiCode(buf, i) ==
  IF ~StartsWith(buf, i, L_AWS_SEND_A) THEN [ok |-> FALSE, api_code |-> 0]
  ELSE LET r == ScanInt(buf, i + Len(L_AWS_SEND_A), 3)
       IN [ok |-> r.ok, api_code |-> IF r.ok THEN U16(r.value) ELSE 0]

\* sscanf(token, "\"%3s\":\"%d\"", key, &value) == 2 with token at C index t
ScanToken(buf, t) ==
  LET k == SkipSpace(buf, t + 1)
      n == WordRun(buf, k, 3)
      e == k + n
      r == ScanInt(buf, e + 3, Len(buf))
  IN [ok |-> /\ At(buf, t) = "\""
             /\ n > 0
             /\ At(buf, e) = "\"" /\ At(buf, e + 1) = ":" /\ At(buf, e + 2) = "\""
             /\ r.ok,
      key |-> SubSeq(buf, k + 1, e),
      value |-> r.value]

RECURSIVE SkipDelims(_, _)
SkipDelims(buf, j) == IF At(buf, j) = "," THEN SkipDelims(buf, j + 1) ELSE j

RECURSIVE TokenLen(_, _)
TokenLen(buf, j) == IF At(buf, j) \in {NUL, ","} THEN 0 ELSE 1 + TokenLen(buf, j + 1)

\* strtok(..., ",") resuming at C index p: tok is the token's index, -1 for NULL
Strtok(buf, p) ==
  LET s == SkipDelims(buf, p)
      e == s + TokenLen(buf, s)
  IN IF At(buf, s) = NUL THEN [tok |-> 0 - 1, buffer |-> buf, save |-> s]
     ELSE IF At(buf, e) = ","
       THEN [tok |-> s, buffer |-> [buf EXCEPT ![e + 1] = NUL], save |-> e + 1]
       ELSE [tok |-> s, buffer |-> buf, save |-> e]

----------------------------------------------------------------------------
(* The component: c is the record of the fields an operation may change,  *)
(* t the value of millis()                                                *)

MapPut(map, key, value) ==
  [k \in DOMAIN map \cup {key} |-> IF k = key THEN value ELSE map[k]]

EmptyMap == <<>>

\* write_sentence_
WriteSentence(c, sentence) == [c EXCEPT !.uart_tx = Append(@, Frame(sentence))]

\* the token loop of parse_aws_sentence_, strtok resuming at C index p
RECURSIVE ParseTokens(_, _)
ParseTokens(c, p) ==
  LET tk == Strtok(c.buffer, p)
      c1 == [c EXCEPT !.buffer = tk.buffer]
      sc == ScanToken(tk.buffer, tk.tok)
  IN IF tk.tok < 0 THEN [ok |-> TRUE, c |-> c1]
     ELSE IF ~sc.ok THEN [ok |-> FALSE, c |-> c1]
     ELSE ParseTokens([c1 EXCEPT !.states_ = MapPut(@, sc.key, U16(sc.value))], tk.save)

\* the acknowledgement without the forced state
AckValidNoForce(c, t) ==
  [WriteSentence(WriteSentence(c, S_AWS_SEND_OK), S_AWS_IND_SEND_OK)
     EXCEPT !.last_handshake_event_ = t]

\* the acknowledgement of a valid message
AckValid(c, t) ==
  [WriteSentence(WriteSentence(c, S_AWS_SEND_OK), S_AWS_IND_SEND_OK)
     EXCEPT !.handshake_state_ = "Connected", !.last_handshake_event_ = t]

\* parse_aws_sentence_ with case 102 leaving the handshake state alone
ParseAwsSentenceKeepState(c, i, t) ==
  LET code == ScanApiCode(c.buffer, i)
      parsed == ParseTokens(c, i + Len(L_AWS_HEADER))
  IN IF ~code.ok THEN c
     ELSE IF code.api_code = 102
       THEN [WriteSentence(WriteSentence(WriteSentence(c, S_AWS_SEND_OK),
                                         S_AWS_IND_SEND_OK), S_AWS_IND_DISCONNECTED)
               EXCEPT !.last_handshake_event_ = t]
     ELSE IF code.api_code \in {210, 220}
       THEN IF parsed.ok THEN AckValid(parsed.c, t) ELSE parsed.c
     ELSE IF code.api_code \in {230, 240} THEN AckValid(c, t)
     ELSE c

\* parse_aws_sentence_ with case 102 not stamping the event time
ParseAwsSentenceNoStamp(c, i, t) ==
  LET code == ScanApiCode(c.buffer, i)
      parsed == ParseTokens(c, i + Len(L_AWS_HEADER))
  IN IF ~code.ok THEN c
     ELSE IF code.api_code = 102
       THEN [WriteSentence(WriteSentence(WriteSentence(c, S_AWS_SEND_OK),
                                         S_AWS_IND_SEND_OK), S_AWS_IND_DISCONNECTED)
               EXCEPT !.handshake_state_ = "Reset"]
     ELSE IF code.api_code \in {210, 220}
       THEN IF parsed.ok THEN AckValid(parsed.c, t) ELSE parsed.c
     ELSE IF code.api_code \in {230, 240} THEN AckValid(c, t)
     ELSE c

\* parse_aws_sentence_(sentence) with sentence at C index i
ParseAwsSentence(c, i, t) ==
  LET code == ScanApiCode(c.buffer, i)
      parsed == ParseTokens(c, i + Len(L_AWS_HEADER))
  IN IF ~code.ok THEN c
     ELSE IF code.api_code = 102
       THEN [WriteSentence(WriteSentence(WriteSentence(c, S_AWS_SEND_OK),
                                         S_AWS_IND_SEND_OK), S_AWS_IND_DISCONNECTED)
               EXCEPT !.handshake_state_ = "Reset", !.last_handshake_event_ = t]
     ELSE IF code.api_code \in {210, 220}
       THEN IF parsed.ok THEN AckValid(parsed.c, t) ELSE parsed.c
     ELSE IF code.api_code \in {230, 240} THEN AckValid(c, t)
     ELSE c

\* parse_sentence_(buffer)
ParseSentence(c, t) ==
  LET i == Len(RX_PREFIX)
  IN IF ~StartsWith(c.buffer, 0, RX_PREFIX) THEN c
     ELSE IF StartsWith(c.buffer, i, L_AWS_SEND) THEN ParseAwsSentence(c, i, t)
     ELSE IF StartsWith(c.buffer, i, L_MCU_READY)
       THEN WriteSentence([c EXCEPT !.handshake_state_ = "McuReady",
                                    !.last_handshake_event_ = t], S_MCU_READY_OK)
     ELSE IF StartsWith(c.buffer, i, L_MIB32)
       THEN WriteSentence([c EXCEPT !.handshake_state_ = "MIB",
                                    !.last_handshake_event_ = t], S_MIB_OK)
     ELSE IF StartsWith(c.buffer, i, L_SETMIB) THEN WriteSentence(c, S_SETMIB_OK)
     ELSE IF StartsWith(c.buffer, i, L_SMODE) THEN WriteSentence(c, S_SMODE_OK)
     ELSE c

\* millis() - since in uint32_t; the clock of the checked runs stays far
\* below 2^32 and never before since, so the difference does not wrap
Elapsed(t, since) == t - since

\* update_handshake_state_ without the early return of case Connected
UpdateHandshakeStateFallThrough(c, t) ==
  IF c.handshake_state_ \in {"Connected", "Reset", "DeviceReady"}
    THEN IF Elapsed(t, c.last_handshake_event_) < 10000 THEN c
         ELSE WriteSentence([c EXCEPT !.handshake_state_ = "DeviceReady",
                                      !.last_handshake_event_ = t], S_DEVICEREADY)
  ELSE IF c.handshake_state_ = "MIB"
    THEN WriteSentence([c EXCEPT !.handshake_state_ = "Connected",
                                 !.last_handshake_event_ = t], S_AWS_IND_CONNECT_OK)
  ELSE c

\* update_handshake_state_ with the grace period applied to case MIB too
UpdateHandshakeStateMibWaits(c, t) ==
  IF c.handshake_state_ = "Connected" THEN c
  ELSE IF Elapsed(t, c.last_handshake_event_) < 10000 THEN c
  ELSE IF c.handshake_state_ \in {"Reset", "DeviceReady"}
    THEN WriteSentence([c EXCEPT !.handshake_state_ = "DeviceReady",
                                 !.last_handshake_event_ = t], S_DEVICEREADY)
  ELSE IF c.handshake_state_ = "MIB"
    THEN WriteSentence([c EXCEPT !.handshake_state_ = "Connected",
                                 !.last_handshake_event_ = t], S_AWS_IND_CONNECT_OK)
  ELSE c

\* update_handshake_state_ with a grace period of 1,000 ms
UpdateHandshakeStateShortGrace(c, t) ==
  IF c.handshake_state_ = "Connected" THEN c
  ELSE IF c.handshake_state_ \in {"Reset", "DeviceReady"}
    THEN IF Elapsed(t, c.last_handshake_event_) < 1000 THEN c
         ELSE WriteSentence([c EXCEPT !.handshake_state_ = "DeviceReady",
                                      !.last_handshake_event_ = t], S_DEVICEREADY)
  ELSE IF c.handshake_state_ = "MIB"
    THEN WriteSentence([c EXCEPT !.handshake_state_ = "Connected",
                                 !.last_handshake_event_ = t], S_AWS_IND_CONNECT_OK)
  ELSE c

\* update_handshake_state_
UpdateHandshakeState(c, t) ==
  IF c.handshake_state_ = "Connected" THEN c
  ELSE IF c.handshake_state_ \in {"Reset", "DeviceReady"}
    THEN IF Elapsed(t, c.last_handshake_event_) < 10000 THEN c
         ELSE WriteSentence([c EXCEPT !.handshake_state_ = "DeviceReady",
                                      !.last_handshake_event_ = t], S_DEVICEREADY)
  ELSE IF c.handshake_state_ = "MIB"
    THEN WriteSentence([c EXCEPT !.handshake_state_ = "Connected",
                                 !.last_handshake_event_ = t], S_AWS_IND_CONNECT_OK)
  ELSE c

----------------------------------------------------------------------------
(* Observers.  o is the record of the attached observers and of the value *)
(* each one last published; a notification is a record [who, value].      *)

Observers == {"fan", "aqi_indicator", "aqi", "light", "filter_age",
              "plasmawave", "auto", "sleep"}

\* raw_state of a sensor that never published
NaN == 0 - 1

Has(map, key) == key \in DOMAIN map

\* a numeric sensor that publishes every value it is given
PublishSensorAlways(o, map, key, who) ==
  IF Has(map, key) /\ who \in o.attached
  THEN <<[who |-> who, value |-> map[key]]>> ELSE <<>>

\* a numeric sensor: published when the value differs from raw_state
PublishSensor(o, map, key, who) ==
  IF Has(map, key) /\ who \in o.attached /\ map[key] # o[who]
  THEN <<[who |-> who, value |-> map[key]]>> ELSE <<>>

\* a switch: published when the decoded boolean differs from its state
PublishSwitch(o, map, key, who, on) ==
  IF Has(map, key) /\ who \in o.attached /\ (map[key] = on) # o[who]
  THEN <<[who |-> who, value |-> (map[key] = on)]>> ELSE <<>>

\* the AQI indicator text sensor: published for the values 1, 2 and 3
PublishIndicator(o, map) ==
  IF Has(map, KEY_AQI_INDICATOR) /\ "aqi_indicator" \in o.attached
     /\ map[KEY_AQI_INDICATOR] \in {1, 2, 3}
  THEN <<[who |-> "aqi_indicator",
          value |-> CASE map[KEY_AQI_INDICATOR] = 1 -> "Good"
                      [] map[KEY_AQI_INDICATOR] = 2 -> "Fair"
                      [] map[KEY_AQI_INDICATOR] = 3 -> "Poor"]>>
  ELSE <<>>

\* a decode without the cases for turbo and sleep
FanSpeedPlain(value) == value % 256

\* the speed WinixC545Fan::update_state derives: uint8_t speed
FanSpeed(value) == IF value = 5 THEN 4 ELSE IF value = 6 THEN 0 ELSE value % 256

\* an update_state that takes a key that is absent for a zero
FanUpdateStateResets(f, map) ==
  LET st == Has(map, KEY_POWER) /\ map[KEY_POWER] = 1
      sp == IF Has(map, KEY_SPEED) THEN map[KEY_SPEED] % 256 ELSE 0
  IN [state |-> st, speed |-> sp, publish |-> st # f.state \/ sp # f.speed]

\* WinixC545Fan::update_state(states) on the fan's fields
FanUpdateState(f, map) ==
  LET st == IF Has(map, KEY_POWER) THEN map[KEY_POWER] = 1 ELSE f.state
      sp == IF Has(map, KEY_SPEED) THEN FanSpeed(map[KEY_SPEED]) ELSE f.speed
  IN [state |-> st, speed |-> sp, publish |-> st # f.state \/ sp # f.speed]

\* the notifications of publish_state_, in the order of the keys of the map
Notifications(o, map) ==
  PublishSwitch(o, map, KEY_AUTO, "auto", 1)
  \o PublishSwitch(o, map, KEY_SPEED, "sleep", 6)
  \o PublishSwitch(o, map, KEY_PLASMAWAVE, "plasmawave", 1)
  \o PublishSensor(o, map, KEY_FILTER_AGE, "filter_age")
  \o PublishIndicator(o, map)
  \o PublishSensor(o, map, KEY_AQI, "aqi")
  \o PublishSensor(o, map, KEY_LIGHT, "light")
  \o (IF "fan" \in o.attached /\ FanUpdateState(o.fan, map).publish
      THEN <<[who |-> "fan", value |-> [state |-> FanUpdateState(o.fan, map).state,
                                         speed |-> FanUpdateState(o.fan, map).speed]]>>
      ELSE <<>>)

\* an observer keeps the value it published
RECURSIVE Apply(_, _)
Apply(o, notes) ==
  IF notes = <<>> THEN o
  ELSE Apply([o EXCEPT ![Head(notes).who] = Head(notes).value], Tail(notes))

\* a publish step that clears the map only when it notified an observer
PublishStateKeepsQuiet(o, map) ==
  [obs |-> Apply(o, Notifications(o, map)),
   notified |-> Notifications(o, map),
   states_ |-> IF Notifications(o, map) = <<>> THEN map ELSE EmptyMap]

\* publish_state_: the observers afterwards, what was notified, the map left
PublishState(o, map) ==
  IF map = EmptyMap THEN [obs |-> o, notified |-> <<>>, states_ |-> map]
  ELSE [obs |-> Apply(o, Notifications(o, map)),
        notified |-> Notifications(o, map),
        states_ |-> EmptyMap]

----------------------------------------------------------------------------
(* Outbound changes: write_state, WinixC545Fan::control and                *)
(* WinixC545Switch::write_state                                            *)

\* "%d" of a value that is not negative
RECURSIVE Dec(_)
Dec(n) ==
  LET d == <<"0","1","2","3","4","5","6","7","8","9">>[(n % 10) + 1]
  IN IF n < 10 THEN <<d>> ELSE Append(Dec(n \div 10), d)

\* the keys of a state map in the order std::map iterates them
KeyOrder ==
  <<KEY_POWER, KEY_AUTO, KEY_SPEED, KEY_PLASMAWAVE, KEY_FILTER_AGE,
    KEY_AQI_INDICATOR, KEY_AQI, KEY_LIGHT>>

\* snprintf(buffer, 16, "\"%s\":\"%d\",", key, value): at most 15 bytes
Pair(key, value) ==
  LET text == <<"\"">> \o key \o <<"\"", ":", "\"">> \o Dec(value) \o <<"\"", ",">>
  IN SubSeq(text, 1, IF Len(text) < 15 THEN Len(text) ELSE 15)

L_AWS_RECV ==
  <<"A","W","S","_","R","E","C","V",":","A","2","1","1"," ","1","2"," ","{">>

\* the pairs of the keys KeyOrder[i..], appended in order
RECURSIVE Pairs(_, _)
Pairs(map, i) ==
  IF i > Len(KeyOrder) THEN <<>>
  ELSE (IF Has(map, KeyOrder[i]) THEN Pair(KeyOrder[i], map[KeyOrder[i]]) ELSE <<>>)
       \o Pairs(map, i + 1)

\* the sentence write_state builds: the final byte becomes the end brace
Encode(map) ==
  LET text == L_AWS_RECV \o Pairs(map, 1)
  IN [text EXCEPT ![Len(text)] = "}"]

\* write_state without the test for an empty map
WriteStateNoGuard(c, map) == WriteSentence(c, Encode(map))

\* write_state
WriteState(c, map) ==
  IF map = EmptyMap THEN c ELSE WriteSentence(c, Encode(map))

\* a call without a target
NoCall == [has_state |-> FALSE, state |-> FALSE, has_speed |-> FALSE, speed |-> 0]

\* the raw value WinixC545Fan::control writes for a speed
SpeedRaw(speed) == IF speed = 4 THEN 5 ELSE speed

\* WinixC545Fan::control up to the call of write_state: the fan's fields and
\* the map handed to write_state
FanControl(f, call) ==
  LET pw == call.has_state /\ f.state # call.state
      sp == call.has_speed /\ f.speed # call.speed
      st == IF pw THEN call.state ELSE f.state
      m1 == IF pw THEN MapPut(EmptyMap, KEY_POWER, IF st THEN 1 ELSE 0) ELSE EmptyMap
      m2 == IF sp THEN MapPut(m1, KEY_SPEED, SpeedRaw(call.speed)) ELSE m1
  IN [fan |-> [state |-> st, speed |-> IF sp THEN call.speed ELSE f.speed],
      states |-> m2]

\* key_, on_value_ and off_value_ of the three switches
SwitchKey(who) ==
  CASE who = "plasmawave" -> KEY_PLASMAWAVE
    [] who = "auto" -> KEY_AUTO
    [] who = "sleep" -> KEY_SPEED

SwitchOnValue(who) == IF who = "sleep" THEN 6 ELSE 1

SwitchOffValue(who) ==
  CASE who = "plasmawave" -> 0
    [] who = "auto" -> 2
    [] who = "sleep" -> 1

\* WinixC545Switch::write_state up to the call of write_state: the map
SwitchStates(current, who, target) ==
  IF target # current
  THEN MapPut(EmptyMap, SwitchKey(who),
              IF target THEN SwitchOnValue(who) ELSE SwitchOffValue(who))
  ELSE EmptyMap

----------------------------------------------------------------------------
(* loop() *)

\* a while loop that reads on after a line was found, until the UART is empty
ReadLoopDrain(q, buf, pos) ==
  [found |-> \E i \in 1..Len(q) : q[i] = CR, rx |-> <<>>, buffer |-> buf,
   position |-> 0]

\* the while loop of loop(): read and frame bytes until a line is found or
\* the UART is empty
RECURSIVE ReadLoop(_, _, _)
ReadLoop(q, buf, pos) ==
  IF q = <<>> THEN [found |-> FALSE, rx |-> q, buffer |-> buf, position |-> pos]
  ELSE LET r == Readline(Head(q), buf, pos, MAX_LINE_LENGTH)
       IN IF r.found
          THEN [found |-> TRUE, rx |-> Tail(q), buffer |-> r.buffer, position |-> r.position]
          ELSE ReadLoop(Tail(q), r.buffer, r.position)

\* the guard in front of the while loop: true when loop() returns early
TooFewBytes(q) == Len(q) < Len(RX_PREFIX)

----------------------------------------------------------------------------
(* Sentences the appliance sends in the checked configurations *)

M_MCU_READY ==
  <<"A","T","*","I","C","T","*","M","C","U","_","R","E","A","D","Y","=","1",".","2",".","0">>

M_MIB32 ==
  <<"A","T","*","I","C","T","*","M","I","B","=","3","2">>

M_SETMIB ==
  <<"A","T","*","I","C","T","*","S","E","T","M","I","B","=","1","8"," ","C","5","4","5">>

M_SMODE ==
  <<"A","T","*","I","C","T","*","S","M","O","D","E","=","1">>

M_A102 ==
  <<"A","T","*","I","C","T","*","A","W","S","_","S","E","N","D","=","A","1","0","2">>

M_A210 ==
  <<"A","T","*","I","C","T","*","A","W","S","_","S","E","N","D","=","A","2","1","0"," ","{","\"","A","0","2","\"",":","\"","1","\"",",","\"","A","0","4","\"",":","\"","5","\"","}">>

M_A220 ==
  <<"A","T","*","I","C","T","*","A","W","S","_","S","E","N","D","=","A","2","2","0"," ","{","\"","S","0","8","\"",":","\"","9","7","\"","}">>

M_A230 ==
  <<"A","T","*","I","C","T","*","A","W","S","_","S","E","N","D","=","A","2","3","0"," ","{","\"","E","0","1","\"",":","\"","3","\"","}">>

M_A240 ==
  <<"A","T","*","I","C","T","*","A","W","S","_","S","E","N","D","=","A","2","4","0"," ","{","\"","V","0","1","\"",":","\"","1","2","\"","}">>

M_A310 ==
  <<"A","T","*","I","C","T","*","A","W","S","_","S","E","N","D","=","A","3","1","0"," ","{","\"","A","0","2","\"",":","\"","0","\"","}">>

M_NOCODE ==
  <<"A","T","*","I","C","T","*","A","W","S","_","S","E","N","D","=","A","x","y","z">>

M_UNSUPPORTED ==
  <<"A","T","*","I","C","T","*","H","E","L","L","O">>

M_BADPREFIX ==
  <<"M","C","U","_","R","E","A","D","Y","=","1",".","2",".","0">>

M_A210_BAD ==
  <<"A","T","*","I","C","T","*","A","W","S","_","S","E","N","D","=","A","2","1","0"," ","{","\"","A","0","2","\"",":","\"","1","\"",",","\"","A","0","4","\"",":","x","}">>

M_A220_BAD ==
  <<"A","T","*","I","C","T","*","A","W","S","_","S","E","N","D","=","A","2","2","0"," ","{","\"","S","0","8","\"",":","x","}">>

M_A210_SLEEP ==
  <<"A","T","*","I","C","T","*","A","W","S","_","S","E","N","D","=","A","2","1","0"," ","{","\"","A","0","4","\"",":","\"","6","\"","}">>

M_A210_WIDE ==
  <<"A","T","*","I","C","T","*","A","W","S","_","S","E","N","D","=","A","2","1","0"," ","{","\"","A","0","4","\"",":","\"","2","6","0","\"","}">>

M_A220_GOOD ==
  <<"A","T","*","I","C","T","*","A","W","S","_","S","E","N","D","=","A","2","2","0"," ","{","\"","S","0","7","\"",":","\"","1","\"",",","\"","S","0","8","\"",":","\"","9","7","\"","}">>

M_A210_SHORT ==
  <<"A","T","*","I","C","T","*","A","W","S","_","S","E","N","D","=","A","2","1","0">>

\* well-formed application messages
ValidMessages == {M_A210, M_A220, M_A230, M_A240}

\* 210/220 messages with a token that fails the pattern
MalformedMessages == {M_A210_BAD, M_A220_BAD}

\* sentences the router drops
RejectedSentences == {M_A310, M_NOCODE, M_UNSUPPORTED, M_BADPREFIX}

HandshakeSentences == {M_MCU_READY, M_MIB32, M_SETMIB, M_SMODE, M_A102}

----------------------------------------------------------------------------
(* Bounds of the checked configurations *)

\* sentences framed in a run of the framer specification
MaxLines == 2

\* readline_ calls made for one line after the buffer could hold no more
OverFeed == 1

\* sentences the appliance sends in a run
MaxRecv == 2

\* the clock stops here
MaxNow == 20000

\* bytes of a partial arrival at the UART
Chunk == 10

\* requests the control surfaces make in a run
MaxCalls == 2

----------------------------------------------------------------------------
(* State after construction and setup() *)

\* static storage is zero-initialised
ZeroBuffer == [i \in 1..MAX_LINE_LENGTH |-> NUL]

\* observers before anything was published
InitObs(attached) ==
  [attached |-> attached,
   fan |-> [state |-> FALSE, speed |-> 0],
   aqi_indicator |-> "",
   aqi |-> NaN, light |-> NaN, filter_age |-> NaN,
   plasmawave |-> FALSE, auto |-> FALSE, sleep |-> FALSE]

\* history of a run: when DEVICEREADY was last sent, when a disconnect
\* notice was routed in state Connected with nothing routed or announced
\* since (-1: never), how many sentences the appliance sent, the sentence
\* routed before the last one, whether every sentence routed so far was a
\* malformed 210/220 message, the sentences sent back to back on the wire,
\* how many sentences were routed, what the last fan control request
\* changed when no sentence reached the UART or was routed since, and how
\* many requests the control surfaces made
InitHist ==
  [dr_time |-> 0 - 1, disc_time |-> 0 - 1, nrecv |-> 0,
   last_routed |-> <<>>, prev_routed |-> <<>>, only_malformed |-> TRUE,
   sent |-> <<>>, nrouted |-> 0, has_req |-> FALSE, req |-> NoCall, ncalls |-> 0]

NoEvent ==
  [op |-> "setup", data |-> NUL, found |-> FALSE, routed |-> <<>>,
   pre_hs |-> "Reset", mid_hs |-> "Reset", pre_last |-> 0, mid_last |-> 0,
   tx_hs |-> <<>>, tx_rt |-> <<>>,
   pre_states |-> EmptyMap, mid_states |-> EmptyMap,
   pre_obs |-> <<>>, notified |-> <<>>, pre_rx |-> <<>>, pre_hist |-> InitHist,
   call |-> NoCall, who |-> "", target |-> FALSE]

\* setup(): the handshake is reset and stamped; nothing was received
InitProgram ==
  /\ buffer = ZeroBuffer
  /\ position = 0
  /\ rx = <<>>
  /\ wire = <<>>
  /\ handshake_state_ = "Reset"
  /\ now = 0
  /\ last_handshake_event_ = now
  /\ states_ = EmptyMap
  /\ uart_tx = <<>>
  /\ fed = <<>>
  /\ nlines = 0
  /\ hist = InitHist
  /\ ev = NoEvent

----------------------------------------------------------------------------
(* Operations *)

\* the fields an operation of the component may change
Component ==
  [handshake_state_ |-> handshake_state_,
   last_handshake_event_ |-> last_handshake_event_,
   states_ |-> states_, buffer |-> buffer, uart_tx |-> <<>>]

Sent(frames, sentence) == \E i \in 1..Len(frames) : frames[i] = Frame(sentence)

\* the effect of a pass of loop() that left the component as c1 after
\* update_handshake_state_, published p, read rd and ended as c3
TickFrom(c1, p, rd, c3) ==
  LET c2 == [c1 EXCEPT !.states_ = p.states_]
      line == IF rd.found THEN CStr(rd.buffer, 0) ELSE <<>>
      announced == Sent(c1.uart_tx, S_DEVICEREADY)
  IN /\ handshake_state_' = c3.handshake_state_
     /\ last_handshake_event_' = c3.last_handshake_event_
     /\ states_' = c3.states_
     /\ buffer' = c3.buffer
     /\ position' = rd.position
     /\ rx' = rd.rx
     /\ obs' = p.obs
     /\ uart_tx' = c3.uart_tx
     /\ hist' = [hist EXCEPT
          !.dr_time = IF announced THEN now ELSE @,
          !.disc_time = IF rd.found /\ line = M_A102 /\ c2.handshake_state_ = "Connected"
                          THEN now
                        ELSE IF rd.found \/ announced THEN 0 - 1 ELSE @,
          !.last_routed = IF rd.found THEN line ELSE @,
          !.prev_routed = IF rd.found THEN hist.last_routed ELSE @,
          !.only_malformed = @ /\ (rd.found => line \in MalformedMessages),
          !.nrouted = IF rd.found THEN @ + 1 ELSE @,
          !.has_req = IF rd.found THEN FALSE ELSE @,
          !.req = IF rd.found THEN NoCall ELSE @]
     /\ ev' = [op |-> "tick", data |-> NUL, found |-> rd.found, routed |-> line,
               pre_hs |-> handshake_state_, mid_hs |-> c2.handshake_state_,
               pre_last |-> last_handshake_event_,
               mid_last |-> c2.last_handshake_event_,
               tx_hs |-> c1.uart_tx,
               tx_rt |-> SubSeq(c3.uart_tx, Len(c1.uart_tx) + 1, Len(c3.uart_tx)),
               pre_states |-> states_, mid_states |-> c2.states_,
               pre_obs |-> obs, notified |-> p.notified, pre_rx |-> rx,
               pre_hist |-> hist]
     /\ UNCHANGED <<char_signed, wire, now, fed, nlines>>

\* a pass that reads and routes before its publish step
TickRouteFirst ==
  \E c1 \in {UpdateHandshakeState(Component, now)} :
  \E rd \in {IF TooFewBytes(rx)
            THEN [found |-> FALSE, rx |-> rx, buffer |-> buffer, position |-> position]
            ELSE ReadLoop(rx, buffer, position)} :
  \E c2 \in {IF rd.found THEN ParseSentence([c1 EXCEPT !.buffer = rd.buffer], now)
            ELSE [c1 EXCEPT !.buffer = rd.buffer]} :
  \E p \in {PublishState(obs, c2.states_)} :
    TickFrom(c1, p, rd, [c2 EXCEPT !.states_ = p.states_])

\* one pass of loop(): handshake timeout, publish step, then bytes are read
\* and at most one sentence is routed
Tick ==
  \E c1 \in {UpdateHandshakeState(Component, now)} :
  \E p \in {PublishState(obs, c1.states_)} :
  \E rd \in {IF TooFewBytes(rx)
            THEN [found |-> FALSE, rx |-> rx, buffer |-> buffer, position |-> position]
            ELSE ReadLoop(rx, buffer, position)} :
  \E c3 \in {IF rd.found THEN ParseSentence([c1 EXCEPT !.states_ = p.states_, !.buffer = rd.buffer], now)
            ELSE [c1 EXCEPT !.states_ = p.states_, !.buffer = rd.buffer]} :
    TickFrom(c1, p, rd, c3)

\* number of sentences the UART holds complete
Queued(q) == Len(SelectSeq(q, LAMBDA c : c = CR))

\* the appliance sends a sentence, ended by CR LF, once the sentence before
\* it was read
Receive(sentence) ==
  /\ hist.nrecv < MaxRecv
  /\ Queued(rx) = 0
  /\ rx' = rx \o sentence \o <<CR, LF>>
  /\ hist' = [hist EXCEPT !.nrecv = @ + 1, !.has_req = FALSE, !.req = NoCall]
  /\ ev' = [NoEvent EXCEPT !.op = "receive"]
  /\ UNCHANGED <<buffer, position, char_signed, wire, handshake_state_,
                 last_handshake_event_, now, states_, obs, uart_tx, fed, nlines>>

\* time passes
Advance(d) ==
  /\ now + d <= MaxNow
  /\ now' = now + d
  /\ ev' = [NoEvent EXCEPT !.op = "advance"]
  /\ UNCHANGED <<buffer, position, char_signed, rx, wire, handshake_state_,
                 last_handshake_event_, states_, obs, uart_tx, fed, nlines, hist>>

----------------------------------------------------------------------------
(* Specification of the protocol layer: the appliance sends sentences one *)
(* at a time, time passes and loop() runs.                                *)

Init ==
  /\ InitProgram
  /\ char_signed = FALSE
  /\ obs = InitObs(Observers)

Sentences == HandshakeSentences \cup ValidMessages \cup MalformedMessages
               \cup RejectedSentences

Next ==
  \/ Tick
  \/ \E s \in Sentences : Receive(s)
  \/ \E d \in {10000} : Advance(d)

Spec == Init /\ [][Next]_vars

----------------------------------------------------------------------------
(* Timing specification: the sentences that move the handshake, and a     *)
(* clock that stops just short of the 10,000 ms grace period or on it.    *)

TimingSentences == {M_MCU_READY, M_MIB32, M_A102, M_A230}

NextTiming ==
  \/ Tick
  \/ \E s \in TimingSentences : Receive(s)
  \/ \E d \in {9999, 10000} : Advance(d)

SpecTiming == Init /\ [][NextTiming]_vars

----------------------------------------------------------------------------
(* Transport specification: the appliance sends sentences back to back,   *)
(* and their bytes reach the UART Chunk at a time or all at once.         *)

\* the appliance sends a sentence, ended by CR LF
Send(sentence) ==
  /\ hist.nrecv < MaxRecv
  /\ wire' = wire \o sentence \o <<CR, LF>>
  /\ hist' = [hist EXCEPT !.nrecv = @ + 1, !.sent = Append(@, sentence)]
  /\ ev' = [NoEvent EXCEPT !.op = "send"]
  /\ UNCHANGED <<buffer, position, char_signed, rx, handshake_state_,
                 last_handshake_event_, now, states_, obs, uart_tx, fed, nlines>>

\* the next k bytes reach the UART
Arrive(k) ==
  /\ k \in 1..Len(wire)
  /\ rx' = rx \o SubSeq(wire, 1, k)
  /\ wire' = SubSeq(wire, k + 1, Len(wire))
  /\ ev' = [NoEvent EXCEPT !.op = "arrive"]
  /\ UNCHANGED <<buffer, position, char_signed, handshake_state_,
                 last_handshake_event_, now, states_, obs, uart_tx, fed, nlines,
                 hist>>

TransportSentences == {M_MIB32, M_SMODE, M_A220}

NextTransport ==
  \/ Tick
  \/ \E s \in TransportSentences : Send(s)
  \/ \E k \in {Chunk, Len(wire)} : Arrive(k)

SpecTransport == Init /\ [][NextTransport]_vars

----------------------------------------------------------------------------
(* Framer specification: readline_ called with one byte per step.          *)
(* The first byte of a line is any kind of byte; the line is then either   *)
(* ended at once or filled with "x" up to the capacity of the buffer,      *)
(* where again LF and CR may come, OverFeed bytes past the capacity.       *)

\* the bytes of the line being framed
CurLine == IF ev.found THEN <<>> ELSE fed

FeedAllowed(b) ==
  \/ CurLine = <<>> /\ b \in {"A", LF, NUL, HI, CR}
  \/ CurLine # <<>> /\ position < MAX_LINE_LENGTH - 1 /\ b = "x"
  \/ Len(CurLine) = 1 /\ b = CR
  \/ /\ position >= MAX_LINE_LENGTH - 2
     /\ \/ b = CR
        \/ b \in {"x", LF} /\ Len(CurLine) < MAX_LINE_LENGTH + OverFeed

Feed(b) ==
  /\ nlines < MaxLines
  /\ FeedAllowed(b)
  /\ LET r == Readline(b, buffer, position, MAX_LINE_LENGTH)
     IN /\ buffer' = r.buffer
        /\ position' = r.position
        /\ nlines' = nlines + (IF r.found THEN 1 ELSE 0)
        /\ ev' = [NoEvent EXCEPT !.op = "feed", !.data = b, !.found = r.found]
  /\ fed' = Append(CurLine, b)
  /\ UNCHANGED <<char_signed, rx, wire, handshake_state_, last_handshake_event_,
                 now, states_, obs, uart_tx, hist>>

InitFramer ==
  /\ InitProgram
  /\ char_signed \in BOOLEAN
  /\ obs = InitObs({})

NextFramer == \E b \in {"A", "x", LF, NUL, HI, CR} : Feed(b)

SpecFramer == InitFramer /\ [][NextFramer]_vars

----------------------------------------------------------------------------
(* Control specification: the appliance reports its state, loop() runs,   *)
(* and the control surfaces ask for changes between two passes.           *)

\* the calls the fan control surface makes
Calls ==
  {[has_state |-> hs, state |-> st, has_speed |-> hp, speed |-> sp] :
     hs \in BOOLEAN, st \in BOOLEAN, hp \in BOOLEAN, sp \in 0..4}
  \ {c \in [has_state : BOOLEAN, state : BOOLEAN, has_speed : BOOLEAN, speed : 0..4] :
       (~c.has_state /\ c.state) \/ (~c.has_speed /\ c.speed # 0)}

Switches == {"plasmawave", "auto", "sleep"}

\* WinixC545Fan::control(call)
Control(call) ==
  \E r \in {FanControl(obs.fan, call)} :
  \E c \in {WriteState(Component, r.states)} :
    /\ hist.ncalls < MaxCalls
    /\ "fan" \in obs.attached
    /\ obs' = [obs EXCEPT !.fan = r.fan]
    /\ uart_tx' = c.uart_tx
    /\ hist' = [hist EXCEPT
         !.has_req = TRUE,
         !.req = [has_state |-> call.has_state /\ obs.fan.state # call.state,
                  state |-> r.fan.state,
                  has_speed |-> call.has_speed /\ obs.fan.speed # call.speed,
                  speed |-> r.fan.speed],
         !.ncalls = @ + 1]
    /\ ev' = [NoEvent EXCEPT !.op = "control", !.call = call, !.pre_obs = obs,
                             !.pre_states = states_,
                             !.notified = <<[who |-> "fan", value |-> r.fan]>>]
    /\ UNCHANGED <<buffer, position, char_signed, rx, wire, handshake_state_,
                   last_handshake_event_, now, states_, fed, nlines>>

\* WinixC545Switch::write_state(state) of the switch who
SwitchWrite(who, target) ==
  \E c \in {WriteState(Component, SwitchStates(obs[who], who, target))} :
    /\ hist.ncalls < MaxCalls
    /\ who \in obs.attached
    /\ obs' = [obs EXCEPT ![who] = target]
    /\ uart_tx' = c.uart_tx
    /\ hist' = [hist EXCEPT !.ncalls = @ + 1]
    /\ ev' = [NoEvent EXCEPT !.op = "switch", !.who = who, !.target = target,
                             !.pre_obs = obs, !.pre_states = states_,
                             !.notified = <<[who |-> who, value |-> target]>>]
    /\ UNCHANGED <<buffer, position, char_signed, rx, wire, handshake_state_,
                   last_handshake_event_, now, states_, fed, nlines>>

ControlSentences == {M_A210}

NextControl ==
  \/ Tick
  \/ \E s \in ControlSentences : Receive(s)
  \/ \E call \in Calls : Control(call)
  \/ \E who \in Switches, target \in BOOLEAN : SwitchWrite(who, target)

SpecControl == Init /\ [][NextControl]_vars

----------------------------------------------------------------------------
(* Decode specification: the appliance reports its state, with or without *)
(* observers attached, and loop() runs.                                   *)

DecodeSentences ==
  {M_MIB32, M_A210, M_A220, M_A210_SLEEP, M_A210_WIDE, M_A220_GOOD}

InitDecode ==
  /\ InitProgram
  /\ char_signed = FALSE
  /\ obs \in {InitObs(Observers), InitObs({})}

NextDecode ==
  \/ Tick
  \/ \E s \in DecodeSentences : Receive(s)

SpecDecode == InitDecode /\ [][NextDecode]_vars

----------------------------------------------------------------------------
(* Rejection specification: sentences the router drops, among sentences   *)
(* it handles; time passes and loop() runs.                               *)

RejectionSentences == RejectedSentences \cup {M_MIB32, M_A220, M_A210_SHORT}

NextRejection ==
  \/ Tick
  \/ \E s \in RejectionSentences : Receive(s)
  \/ \E d \in {10000} : Advance(d)

SpecRejection == Init /\ [][NextRejection]_vars

----------------------------------------------------------------------------
(* What the last pass of loop() did *)

Ticked == ev.op = "tick"

\* the pass routed this sentence
Routed(sentence) == Ticked /\ ev.found /\ ev.routed = sentence

RoutedAnyOf(sentences) == Ticked /\ ev.found /\ ev.routed \in sentences

\* update_handshake_state_ of the pass sent DEVICEREADY
Announced == Ticked /\ Sent(ev.tx_hs, S_DEVICEREADY)

\* number of frames of this sentence among the frames
Count(frames, sentence) == Len(SelectSeq(frames, LAMBDA f : f = Frame(sentence)))

----------------------------------------------------------------------------
(* C1: a token that fails the pattern *)

\* C1 as stated: when a token of a 210/220 message fails the pattern, no key
\* of the message is merged into the pending buffer, no acknowledgement is
\* sent, the handshake state is unchanged, and no observer attribute changes
\* at a later publish step because of the message.
C1_MalformedDropped ==
  /\ RoutedAnyOf(MalformedMessages) =>
       /\ states_ = ev.mid_states
       /\ ev.tx_rt = <<>>
       /\ handshake_state_ = ev.mid_hs
       /\ last_handshake_event_ = ev.mid_last
  /\ hist.only_malformed => obs = InitObs(obs.attached)

----------------------------------------------------------------------------
(* C2: Connected is left only by a routed sentence *)

\* C2 as stated: once Connected, the state stays Connected across every pass
\* and every routed sentence until AWS_SEND=A102 is routed, and no
\* DEVICEREADY is sent while it is Connected.
C2_AsStated ==
  (Ticked /\ ev.pre_hs = "Connected" /\ ~Routed(M_A102)) =>
    /\ handshake_state_ = "Connected"
    /\ ~Sent(uart_tx, S_DEVICEREADY)

\* C2 amended: a pass that starts Connected ends Connected unless it routes
\* MCU_READY (then McuReady), MIB=32 (then MIB) or AWS_SEND=A102 (then
\* Reset), and it sends no DEVICEREADY.
C2_ConnectedStable ==
  (Ticked /\ ev.pre_hs = "Connected") =>
    /\ ev.mid_hs = "Connected"
    /\ handshake_state_ =
         (IF Routed(M_MCU_READY) THEN "McuReady"
          ELSE IF Routed(M_MIB32) THEN "MIB"
          ELSE IF Routed(M_A102) THEN "Reset"
          ELSE "Connected")
    /\ ~Sent(uart_tx, S_DEVICEREADY)

\* Connected for more than the grace period, a pass routed SETMIB
C2_Witness ==
  /\ Routed(M_SETMIB) /\ ev.pre_hs = "Connected"
  /\ Elapsed(now, ev.pre_last) >= 10000
  /\ handshake_state_ = "Connected"

----------------------------------------------------------------------------
(* C3: recovery by inactivity *)

\* C3 as stated: in every state other than Connected, a pass that receives
\* no sentence 10,000 ms or more after the last handshake event sends
\* DEVICEREADY or moves the state to Connected.
C3_InactivityRecovery ==
  (Ticked /\ ~ev.found /\ ev.pre_hs # "Connected"
          /\ Elapsed(now, ev.pre_last) >= 10000) =>
    \/ Sent(uart_tx, S_DEVICEREADY)
    \/ handshake_state_ = "Connected"

----------------------------------------------------------------------------
(* C4: the disconnect notice *)

\* C4: routing AWS_SEND=A102 sends exactly AWS_SEND:OK, AWS_IND:SEND OK and
\* AWS_IND:DISCONNECTED in that order, leaves the state Reset and the event
\* time equal to the clock, and leaves the pending buffer as it was.
C4_Disconnect ==
  Routed(M_A102) =>
    /\ ev.tx_rt = <<Frame(S_AWS_SEND_OK), Frame(S_AWS_IND_SEND_OK),
                    Frame(S_AWS_IND_DISCONNECTED)>>
    /\ handshake_state_ = "Reset"
    /\ last_handshake_event_ = now
    /\ states_ = ev.mid_states

\* the notice was routed in state Connected, later than the last event
C4_Witness ==
  /\ Routed(M_A102) /\ ev.mid_hs = "Connected"
  /\ ev.mid_last < now
  /\ handshake_state_ = "Reset"

----------------------------------------------------------------------------
(* C5: valid application messages *)

\* C5: routing a well-formed 210, 220, 230 or 240 message sends exactly
\* AWS_SEND:OK then AWS_IND:SEND OK and leaves the state Connected and the
\* event time equal to the clock; 230 and 240 leave the pending buffer as
\* it was.
C5_ValidAck ==
  RoutedAnyOf(ValidMessages) =>
    /\ ev.tx_rt = <<Frame(S_AWS_SEND_OK), Frame(S_AWS_IND_SEND_OK)>>
    /\ handshake_state_ = "Connected"
    /\ last_handshake_event_ = now
    /\ ev.routed \in {M_A230, M_A240} => states_ = ev.mid_states

\* a 240 message was routed in state McuReady, later than the last event
C5_Witness ==
  /\ Routed(M_A240) /\ ev.mid_hs = "McuReady"
  /\ ev.mid_last < now
  /\ handshake_state_ = "Connected"

----------------------------------------------------------------------------
(* C6: the handshake's happy path *)

\* C6: routing MIB=32 leaves the state MIB; the next pass moves MIB to
\* Connected whatever time has passed and sends exactly one
\* AWS_IND:CONNECT OK; a pass that starts Connected sends neither
\* AWS_IND:CONNECT OK nor DEVICEREADY.
C6_HappyPath ==
  /\ Routed(M_MIB32) => handshake_state_ = "MIB"
  /\ (Ticked /\ ev.pre_hs = "MIB") =>
       /\ ev.mid_hs = "Connected"
       /\ ev.mid_last = now
       /\ ev.tx_hs = <<Frame(S_AWS_IND_CONNECT_OK)>>
       /\ Count(uart_tx, S_AWS_IND_CONNECT_OK) = 1
  /\ (Ticked /\ ev.pre_hs = "Connected") =>
       /\ ev.tx_hs = <<>>
       /\ Count(uart_tx, S_AWS_IND_CONNECT_OK) = 0
       /\ Count(uart_tx, S_DEVICEREADY) = 0

\* MCU_READY and then MIB=32 were routed, and the next pass, with no time
\* passed since, connected
C6_Witness ==
  /\ Ticked /\ ev.pre_hs = "MIB" /\ ~ev.found
  /\ hist.prev_routed = M_MCU_READY /\ hist.last_routed = M_MIB32
  /\ ev.pre_last = now
  /\ handshake_state_ = "Connected"

----------------------------------------------------------------------------
(* C7: the grace period of DEVICEREADY *)

\* C7: a pass sends DEVICEREADY only in state Reset or DeviceReady and
\* 10,000 ms or more after the last handshake event; it then sends exactly
\* one, sets the state to DeviceReady and the event time to the clock, and
\* 10,000 ms or more have passed since the DEVICEREADY before it.
C7_GracePeriod ==
  (Ticked /\ Sent(uart_tx, S_DEVICEREADY)) =>
    /\ ev.pre_hs \in {"Reset", "DeviceReady"}
    /\ Elapsed(now, ev.pre_last) >= 10000
    /\ ev.tx_hs = <<Frame(S_DEVICEREADY)>>
    /\ Count(uart_tx, S_DEVICEREADY) = 1
    /\ ev.mid_hs = "DeviceReady"
    /\ ev.mid_last = now
    /\ ev.pre_hist.dr_time >= 0 => now - ev.pre_hist.dr_time >= 10000

\* a second DEVICEREADY was sent, from state DeviceReady
C7_Witness ==
  /\ Announced /\ ev.pre_hs = "DeviceReady"
  /\ ev.pre_hist.dr_time >= 0
  /\ handshake_state_ = "DeviceReady"

----------------------------------------------------------------------------
(* C8: DEVICEREADY after a disconnect notice *)

\* C8: after AWS_SEND=A102 was routed in state Connected and while no other
\* sentence is routed, a pass sends DEVICEREADY exactly when 10,000 ms or
\* more have passed since the notice, which no earlier pass did, and the
\* state is then DeviceReady.
C8_Reannounce ==
  (Ticked /\ ev.pre_hist.disc_time >= 0) =>
    /\ Announced <=> Elapsed(now, ev.pre_hist.disc_time) >= 10000
    /\ Announced => ev.mid_hs = "DeviceReady"
    /\ ~Announced => ev.mid_hs = "Reset"

\* DEVICEREADY was sent 10,000 ms after the notice
C8_Witness ==
  /\ Announced /\ ev.pre_hist.disc_time >= 0
  /\ ~ev.found
  /\ Elapsed(now, ev.pre_hist.disc_time) = 10000
  /\ handshake_state_ = "DeviceReady"

----------------------------------------------------------------------------
(* C9: line framer *)

RemoveLF(s) == SelectSeq(s, LAMBDA c : c # LF)

\* the bytes that reach the switch of readline_: not LF, not below zero
Kept(s) == SelectSeq(s, LAMBDA c : c # LF /\ ~(char_signed /\ c = HI))

Truncate(s) == SubSeq(s, 1, IF Len(s) < MAX_LINE_LENGTH - 1 THEN Len(s) ELSE MAX_LINE_LENGTH - 1)

UpToNul(s) == SubSeq(s, 1, StrLen(s, 0))

\* the bytes given to readline_ since the previous CR, the CR excluded
SincePrevCR == SubSeq(fed, 1, Len(fed) - 1)

FramerCursorOK ==
  /\ position <= MAX_LINE_LENGTH - 1
  /\ (ev.op = "feed" /\ ev.found) => position = 0

\* C9 as stated: a sentence is produced exactly on the calls whose byte is
\* CR, it is the bytes fed since the previous CR without the LF bytes, cut to
\* MAX_LINE_LENGTH - 1 bytes, and the cursor stays within the buffer and is
\* zero after a sentence.
C9_AsStated ==
  ev.op = "feed" =>
    /\ ev.found <=> (ev.data = CR)
    /\ ev.found => CStr(buffer, 0) = Truncate(RemoveLF(SincePrevCR))
    /\ FramerCursorOK

\* C9 amended: the sentence is those bytes without the LF bytes and without
\* the bytes that are negative as a char, cut to MAX_LINE_LENGTH - 1 bytes,
\* and it ends before the first NUL byte among them.
C9_Framer ==
  ev.op = "feed" =>
    /\ ev.found <=> (ev.data = CR)
    /\ ev.found => CStr(buffer, 0) = UpToNul(Truncate(Kept(SincePrevCR)))
    /\ FramerCursorOK

\* a second sentence, longer than the buffer and with an LF in it, was framed
C9_Witness ==
  /\ ev.op = "feed" /\ ev.found /\ nlines = 2
  /\ Len(Kept(SincePrevCR)) > MAX_LINE_LENGTH - 1
  /\ \E i \in 1..Len(fed) : fed[i] = LF
  /\ Len(CStr(buffer, 0)) = MAX_LINE_LENGTH - 1

----------------------------------------------------------------------------
(* C10: a sentence that reached the UART is routed *)

\* C10 as stated, for one pass: a pass that starts with a sentence and its
\* CR in the UART routes a sentence, without waiting for more bytes.
C10_SentenceRouted ==
  (Ticked /\ Queued(ev.pre_rx) > 0) => ev.found

----------------------------------------------------------------------------
(* C11: one sentence per pass, in arrival order *)

\* the bytes of the queue behind its first CR
AfterFirstCR(q) ==
  LET i == CHOOSE k \in 1..Len(q) : q[k] = CR /\ \A j \in 1..(k - 1) : q[j] # CR
  IN SubSeq(q, i + 1, Len(q))

\* C11: a pass that starts with several complete sentences in the UART
\* routes one sentence, the first one not yet routed, reads no byte behind
\* the CR of that sentence and leaves the bytes behind it queued in order;
\* every routed sentence is the next one in the order of sending.
C11_OnePerTick ==
  /\ (Ticked /\ Queued(ev.pre_rx) >= 2) =>
       /\ ev.found
       /\ hist.nrouted = ev.pre_hist.nrouted + 1
       /\ rx = AfterFirstCR(ev.pre_rx)
       /\ Queued(rx) = Queued(ev.pre_rx) - 1
  /\ (Ticked /\ ev.found) =>
       /\ hist.nrouted <= Len(hist.sent)
       /\ ev.routed = hist.sent[hist.nrouted]

\* two different sentences were queued, and the pass routed the first only
C11_Witness ==
  /\ Ticked /\ Queued(ev.pre_rx) = 2 /\ ev.found
  /\ hist.nrouted = 1 /\ Len(hist.sent) = 2
  /\ hist.sent[1] # hist.sent[2]
  /\ ev.routed = hist.sent[1]
  /\ Queued(rx) = 1

----------------------------------------------------------------------------
(* C12: encoding outbound changes *)

\* the sentences of a power change, as the protocol writes them
S_RECV_POWER_ON ==
  <<"A","W","S","_","R","E","C","V",":","A","2","1","1"," ","1","2"," ","{","\"","A","0","2","\"",":","\"","1","\"","}">>

S_RECV_POWER_OFF ==
  <<"A","W","S","_","R","E","C","V",":","A","2","1","1"," ","1","2"," ","{","\"","A","0","2","\"",":","\"","0","\"","}">>

\* the request changes the fan's power / speed
ChangesPower(f, call) == call.has_state /\ call.state # f.state

ChangesSpeed(f, call) == call.has_speed /\ call.speed # f.speed

\* C12: an empty state map writes nothing; a fan control request that
\* changes the power and not the speed writes exactly the one sentence
\* AWS_RECV:A211 12 {"A02":"<0|1>"}; a control request or a switch write
\* whose targets all equal the current values writes nothing.
C12_Encoding ==
  /\ WriteState(Component, EmptyMap).uart_tx = <<>>
  /\ ev.op = "control" =>
       /\ (ChangesPower(ev.pre_obs.fan, ev.call) /\ ~ChangesSpeed(ev.pre_obs.fan, ev.call)) =>
            uart_tx = <<Frame(IF ev.call.state THEN S_RECV_POWER_ON ELSE S_RECV_POWER_OFF)>>
       /\ (~ChangesPower(ev.pre_obs.fan, ev.call) /\ ~ChangesSpeed(ev.pre_obs.fan, ev.call)) =>
            uart_tx = <<>>
  /\ (ev.op = "switch" /\ ev.target = ev.pre_obs[ev.who]) => uart_tx = <<>>

\* the fan was on and a request with the speed it already had turned it off
C12_Witness ==
  /\ ev.op = "control"
  /\ ev.pre_obs.fan.state /\ ev.call.has_state /\ ~ev.call.state
  /\ ev.call.has_speed /\ ev.call.speed = ev.pre_obs.fan.speed
  /\ uart_tx = <<Frame(S_RECV_POWER_OFF)>>
  /\ ~obs.fan.state

----------------------------------------------------------------------------
(* C13: a message with the air-quality index only *)

\* the publish step of the pass delivered the delta of this sentence
Publishing(sentence) ==
  Ticked /\ ev.pre_hist.last_routed = sentence /\ ev.pre_states # EmptyMap

\* C13: the publish step for a 220 message that carries only S08 leaves the
\* fan's power and speed and every observer attribute other than the
\* air-quality index as they were, and notifies no observer but the
\* air-quality-index sensor.
C13_AqiOnly ==
  Publishing(M_A220) =>
    /\ ev.pre_states = (KEY_AQI :> 97)
    /\ \A w \in Observers \ {"aqi"} : obs[w] = ev.pre_obs[w]
    /\ \A i \in 1..Len(ev.notified) : ev.notified[i].who = "aqi"
    /\ "aqi" \in obs.attached => obs.aqi = 97

\* an earlier message had set power and speed; the index changed, they did not
C13_Witness ==
  /\ Publishing(M_A220)
  /\ ev.pre_hist.prev_routed = M_A210
  /\ ev.pre_obs.fan = [state |-> TRUE, speed |-> 4]
  /\ obs.fan = [state |-> TRUE, speed |-> 4]
  /\ ev.pre_obs.aqi # 97 /\ obs.aqi = 97

----------------------------------------------------------------------------
(* C14: power and speed of a 210 message *)

\* the ordinal the decode rule gives a raw speed
Ordinal(raw) == IF raw = 5 THEN 4 ELSE IF raw = 6 THEN 0 ELSE raw

\* the example of C14: routing the 210 message with A02 = 1 and A04 = 5 puts
\* exactly these two pairs into the pending buffer, and the next publish step
\* leaves the fan on with speed ordinal 4
C14_Example ==
  /\ Routed(M_A210) => states_ = (KEY_POWER :> 1 @@ KEY_SPEED :> 5)
  /\ (Publishing(M_A210) /\ "fan" \in obs.attached) =>
       obs.fan = [state |-> TRUE, speed |-> 4]

\* C14 as stated: the example, and in general the speed ordinal after a
\* publish step is 4 for raw 5, 0 for raw 6 and the raw value otherwise.
C14_Decode ==
  /\ C14_Example
  /\ (Ticked /\ Has(ev.pre_states, KEY_SPEED) /\ "fan" \in obs.attached) =>
       obs.fan.speed = Ordinal(ev.pre_states[KEY_SPEED])

----------------------------------------------------------------------------
(* C15: the publish step empties the pending buffer *)

\* C15: after the publish step of every pass the pending buffer is empty,
\* whatever was notified and whatever is attached; a publish step on an
\* empty buffer notifies no observer and changes no attribute.
C15_BufferCleared ==
  Ticked =>
    /\ ev.mid_states = EmptyMap
    /\ ev.pre_states = EmptyMap => (ev.notified = <<>> /\ obs = ev.pre_obs)

\* a delta was pending, no observer was attached, nothing was notified, and
\* the buffer is empty
C15_Witness ==
  /\ Ticked /\ ~ev.found
  /\ ev.pre_states # EmptyMap
  /\ obs.attached = {}
  /\ ev.notified = <<>>
  /\ ev.mid_states = EmptyMap /\ states_ = EmptyMap

----------------------------------------------------------------------------
(* C16: rejected sentences *)

\* a line buffer that holds this line and nothing else
Fresh(line) == [i \in 1..MAX_LINE_LENGTH |-> IF i <= Len(line) THEN line[i] ELSE NUL]

\* the component as routing this line into a zeroed buffer leaves it, from
\* the state the pass had before it routed
RoutedAfresh(line) ==
  ParseSentence([handshake_state_ |-> ev.mid_hs,
                 last_handshake_event_ |-> ev.mid_last,
                 states_ |-> ev.mid_states,
                 buffer |-> Fresh(line),
                 uart_tx |-> <<>>], now)

\* the first part of C16: routing a rejected sentence sends nothing and
\* leaves the handshake state, the event time and the pending buffer as
\* they were
C16_Inert ==
  RoutedAnyOf(RejectedSentences) =>
    /\ ev.tx_rt = <<>>
    /\ handshake_state_ = ev.mid_hs
    /\ last_handshake_event_ = ev.mid_last
    /\ states_ = ev.mid_states

\* C16 as stated: a rejected sentence changes nothing, and the sentence
\* routed after it is routed as it is when nothing was routed before it.
C16_RejectedInert ==
  /\ C16_Inert
  /\ (Ticked /\ ev.found /\ ev.pre_hist.last_routed \in RejectedSentences) =>
       /\ ev.tx_rt = RoutedAfresh(ev.routed).uart_tx
       /\ handshake_state_ = RoutedAfresh(ev.routed).handshake_state_
       /\ last_handshake_event_ = RoutedAfresh(ev.routed).last_handshake_event_
       /\ states_ = RoutedAfresh(ev.routed).states_

----------------------------------------------------------------------------
(* C17: notifications of a publish step *)

\* no observer is notified twice by the publish step of the pass
OncePerBatch ==
  \A i, j \in 1..Len(ev.notified) :
    i # j => ev.notified[i].who # ev.notified[j].who

\* C17 as stated: in every publish step each observer is notified at most
\* once and never with a value equal to the value it had.
C17_AsStated ==
  Ticked =>
    /\ OncePerBatch
    /\ \A i \in 1..Len(ev.notified) :
         ev.notified[i].value # ev.pre_obs[ev.notified[i].who]

\* C17 amended: in every publish step each observer is notified at most
\* once; the fan, the numeric sensors and the switches are never notified
\* with a value equal to the value they had, and the air-quality-indicator
\* text sensor is notified whenever the decoded value is 1, 2 or 3, also
\* with the text it already had.
C17_NotifyOnChange ==
  Ticked =>
    /\ OncePerBatch
    /\ \A i \in 1..Len(ev.notified) :
         ev.notified[i].who # "aqi_indicator" =>
           ev.notified[i].value # ev.pre_obs[ev.notified[i].who]
    /\ ( /\ Has(ev.pre_states, KEY_AQI_INDICATOR)
         /\ ev.pre_states[KEY_AQI_INDICATOR] \in {1, 2, 3}
         /\ "aqi_indicator" \in obs.attached )
       => \E i \in 1..Len(ev.notified) : ev.notified[i].who = "aqi_indicator"

\* the same indicator level and index arrived again: the text sensor was
\* notified with the text it had, the index sensor was not notified
C17_Witness ==
  /\ Ticked
  /\ Has(ev.pre_states, KEY_AQI) /\ ev.pre_obs.aqi = ev.pre_states[KEY_AQI]
  /\ \A i \in 1..Len(ev.notified) : ev.notified[i].who # "aqi"
  /\ \E i \in 1..Len(ev.notified) :
       /\ ev.notified[i].who = "aqi_indicator"
       /\ ev.notified[i].value = ev.pre_obs.aqi_indicator

----------------------------------------------------------------------------
(* C18: speed written by a control request and decoded again *)

\* the sentence of a change to the highest speed, as the protocol writes it
S_RECV_TURBO ==
  <<"A","W","S","_","R","E","C","V",":","A","2","1","1"," ","1","2"," ","{","\"","A","0","4","\"",":","\"","5","\"","}">>

\* C18: for every speed ordinal 0..4 the raw value a control request writes
\* (5 for ordinal 4, the ordinal otherwise) is decoded back to the ordinal
\* by the publish step; a control request that changes the speed writes
\* that raw value under the speed key, and update_state given the written
\* map yields the requested speed.
C18_SpeedRoundTrip ==
  /\ \A s \in 0..4 :
       /\ SpeedRaw(s) = (IF s = 4 THEN 5 ELSE s)
       /\ FanSpeed(SpeedRaw(s)) = s
  /\ (ev.op = "control" /\ ChangesSpeed(ev.pre_obs.fan, ev.call)) =>
       \E m \in {FanControl(ev.pre_obs.fan, ev.call).states} :
         /\ Has(m, KEY_SPEED)
         /\ m[KEY_SPEED] = (IF ev.call.speed = 4 THEN 5 ELSE ev.call.speed)
         /\ uart_tx = <<Frame(Encode(m))>>
         /\ FanUpdateState(ev.pre_obs.fan, m).speed = ev.call.speed
         /\ FanUpdateState(obs.fan, m).speed = obs.fan.speed

\* a request for speed 4 wrote raw value 5
C18_Witness ==
  /\ ev.op = "control"
  /\ ev.call.has_speed /\ ev.call.speed = 4 /\ ev.pre_obs.fan.speed # 4
  /\ ~ChangesPower(ev.pre_obs.fan, ev.call)
  /\ uart_tx = <<Frame(S_RECV_TURBO)>>
  /\ obs.fan.speed = 4

----------------------------------------------------------------------------
(* C19: order of the steps of a pass *)

\* C19: the publish step of a pass runs before the pass routes, and the
\* handshake step before both.  The delta of a message routed in a pass is
\* pending after the pass and was not delivered by it; a pass that starts
\* with a delta pending delivers it and empties the buffer before it routes.
\* MIB=32 routed in a pass leaves state MIB and sends no AWS_IND:CONNECT OK
\* for it; the pass that starts in state MIB sends AWS_IND:CONNECT OK.
C19_TickOrder ==
  /\ Routed(M_A220) =>
       /\ states_ = (KEY_AQI :> 97)
       /\ obs.aqi # ev.pre_obs.aqi => Has(ev.pre_states, KEY_AQI)
  /\ Routed(M_A210) =>
       /\ states_ = (KEY_POWER :> 1 @@ KEY_SPEED :> 5)
       /\ obs.fan # ev.pre_obs.fan =>
            (Has(ev.pre_states, KEY_POWER) \/ Has(ev.pre_states, KEY_SPEED))
  /\ Ticked => ev.mid_states = EmptyMap
  /\ (Publishing(M_A220) /\ "aqi" \in obs.attached) => obs.aqi = 97
  /\ (Publishing(M_A210) /\ "fan" \in obs.attached) =>
       obs.fan = [state |-> TRUE, speed |-> 4]
  /\ Routed(M_MIB32) =>
       /\ handshake_state_ = "MIB"
       /\ ~Sent(ev.tx_rt, S_AWS_IND_CONNECT_OK)
       /\ Sent(ev.tx_hs, S_AWS_IND_CONNECT_OK) => ev.pre_hs = "MIB"
  /\ (Ticked /\ ev.pre_hs = "MIB") =>
       /\ Sent(ev.tx_hs, S_AWS_IND_CONNECT_OK)
       /\ ev.mid_hs = "Connected"

\* the pass after MIB=32 sent AWS_IND:CONNECT OK and routed a 220 message,
\* whose index is pending and not yet with the sensor
C19_Witness ==
  /\ Ticked /\ ev.pre_hs = "MIB" /\ ev.pre_hist.last_routed = M_MIB32
  /\ Sent(ev.tx_hs, S_AWS_IND_CONNECT_OK)
  /\ Routed(M_A220)
  /\ states_ = (KEY_AQI :> 97)
  /\ "aqi" \in obs.attached /\ obs.aqi # 97

----------------------------------------------------------------------------
(* C20: a control request and a delta decoded before it *)

\* C20 as stated: after a control request set the fan's power or speed, and
\* as long as no sentence reached the UART or was routed after the request,
\* the attribute keeps the requested value.
C20_RequestKept ==
  hist.has_req =>
    /\ hist.req.has_state => obs.fan.state = hist.req.state
    /\ hist.req.has_speed => obs.fan.speed = hist.req.speed

====
